---- MODULE Spec2Model ----
(***************************************************************************)
(* A model of CarExpenseTracker (src/app.js): the record collection, the   *)
(* aggregate total, the filtered list and current page, the two debounce   *)
(* timers and the localStorage item, with one action per event handler.    *)
(*                                                                         *)
(* Strings are sequences of one-character strings, so that trim,           *)
(* toLowerCase, includes and parseInt are computed character by character. *)
(* The character ">" stands for the arrow of the route label.              *)
(***************************************************************************)
EXTENDS Integers, Sequences, FiniteSets, TLC

VARIABLES
    records,          \* this.records
    filteredRecords,  \* this.filteredRecords
    totalCost,        \* this.totalCost
    currentPage,      \* this.currentPage
    searchInput,      \* this.elements.searchInput.value
    searchTimer,      \* the timeout of debouncedSearch is pending
    saveTimer,        \* the timeout of debouncedSave is pending
    storage,          \* localStorage item 'carExpenseData'
    now,              \* Date.now()
    nMutations,       \* number of add / import actions of the run
    pc,               \* "constructed", "ready" or "unloaded"
    formErrors,       \* the fields whose error message is shown
    sortSelect,       \* this.elements.sortSelect.value as handleSort last read it
    exportBtn,        \* this.elements.exportBtn.disabled
    uploadBtn,        \* this.elements.uploadBtn.disabled
    exportsInFlight,  \* handleExport calls waiting for their script to load
    uploadWait,       \* where handleUpload waits: "idle", "load" or "read"
    isSheetJSLoaded,  \* this.isSheetJSLoaded
    session,          \* the number of the page load this object belongs to
    errorToast,       \* this.elements.errorToast.textContent
    setItemThrows,    \* localStorage.setItem throws, the quota being exceeded
    cacheStorage,     \* service worker: caches, by cache name and request
    fetched,          \* service worker: the requests it gave to fetch()
    responded,        \* service worker: its answer to the last fetch event
    revalidating,     \* service worker: the fetches of updateCache() under way
    nRequests         \* service worker: number of fetch events of the run

\* the buttons, the pending spreadsheet operations and the library flag
sheetVars == <<exportBtn, uploadBtn, exportsInFlight, uploadWait, isSheetJSLoaded>>

\* the state of the service worker
workerVars == <<cacheStorage, fetched, responded, revalidating, nRequests>>

\* the state of the page and its stored item
pageVars == <<records, filteredRecords, totalCost, currentPage, searchInput,
              searchTimer, saveTimer, storage, now, nMutations, pc, formErrors,
              sortSelect, sheetVars, session, errorToast, setItemThrows>>

vars == <<pageVars, workerVars>>

----------------------------------------------------------------------------
(* Bounds of the model *)

\* add / import actions of a run
MaxMutations == 1

\* add / import actions of a run that follows the save timer
BurstLength == 2

\* handleExport calls that wait for their script at a time
MaxInFlight == 2

\* page loads of a run
MaxSessions == 2

\* fetch events of a run of the service worker
MaxRequests == 2

----------------------------------------------------------------------------
(* Program constants *)

recordsPerPage == 20
DayMs == 86400000
\* the session starts on day 9 of the month, so that the five days of the
\* sample history are days 9, 8, 7, 6 and 5
StartTime == 9 * DayMs

----------------------------------------------------------------------------
(* Strings *)

Digits == <<"0", "1", "2", "3", "4", "5", "6", "7", "8", "9">>
IsDigit(c) == \E d \in 1..10 : Digits[d] = c
DigitVal(c) == (CHOOSE d \in 1..10 : Digits[d] = c) - 1

Lower(c) ==
    CASE c = "A" -> "a"
      [] c = "B" -> "b"
      [] c = "J" -> "j"
      [] OTHER   -> c

RECURSIVE toLowerCase(_)
toLowerCase(s) ==
    IF s = <<>> THEN <<>> ELSE <<Lower(Head(s))>> \o toLowerCase(Tail(s))

IsSpace(c) == c = " "

RECURSIVE trimStart(_)
trimStart(s) ==
    IF s # <<>> /\ IsSpace(Head(s)) THEN trimStart(Tail(s)) ELSE s

RECURSIVE trimEnd(_)
trimEnd(s) ==
    IF s # <<>> /\ IsSpace(s[Len(s)])
    THEN trimEnd(SubSeq(s, 1, Len(s) - 1))
    ELSE s

trim(s) == trimEnd(trimStart(s))

\* String.prototype.includes
includes(s, t) ==
    \E i \in 0..(Len(s) - Len(t)) : SubSeq(s, i + 1, i + Len(t)) = t

----------------------------------------------------------------------------
(* parseInt(x) || 0 *)

NaN == [nan |-> TRUE, val |-> 0]
Num(n) == [nan |-> FALSE, val |-> n]

RECURSIVE parseDigits(_, _, _)
parseDigits(s, acc, seen) ==
    IF s # <<>> /\ IsDigit(Head(s))
    THEN parseDigits(Tail(s), acc * 10 + DigitVal(Head(s)), TRUE)
    ELSE IF seen THEN Num(acc) ELSE NaN

\* parseInt of a string: leading white space, an optional sign, then the
\* longest run of decimal digits; NaN when there is no digit
parseIntStr(s) ==
    LET t == trimStart(s)
        signed == t # <<>> /\ Head(t) \in {"-", "+"}
        p == parseDigits(IF signed THEN Tail(t) ELSE t, 0, FALSE)
    IN  IF ~p.nan /\ signed /\ Head(t) = "-" THEN Num(0 - p.val) ELSE p

\* x || 0 for a number x: NaN and 0 are falsy
OrZero(p) == IF p.nan THEN 0 ELSE p.val

----------------------------------------------------------------------------
(* Records *)

Arrow == <<" ", ">", " ">>

RouteLabel(startPoint, endPoint) == startPoint \o Arrow \o endPoint

\* new Date(t).toLocaleDateString('ko-KR'): "<year>. <month>. <day>.", of which
\* the model keeps the month (always 1) and the day of the month
toLocaleDateString(t) == <<"1", ".", " ", Digits[(t \div DayMs) + 1], ".">>

\* Math.random() returns a number in [0, 1); added to Date.now() (about 2^41)
\* a double keeps about 12 bits of it: RandFracs are the distinguishable values
RandFracs == {0, 1}

\* Date.now() + Math.random() [+ i]
MkId(ms, frac) == <<ms, frac>>

MkRecord(id, date, route, startPoint, endPoint, toll, fuel, total, timestamp) ==
    [id |-> id, date |-> date, route |-> route, startPoint |-> startPoint,
     endPoint |-> endPoint, toll |-> toll, fuel |-> fuel, total |-> total,
     timestamp |-> timestamp]

RECURSIVE SumTotals(_)
SumTotals(rs) == IF rs = <<>> THEN 0 ELSE Head(rs).total + SumTotals(Tail(rs))

----------------------------------------------------------------------------
(* The localStorage item and the payloads a session may find in it *)

NoItem ==
    [kind |-> "none", hasRecords |-> FALSE, records |-> <<>>,
     hasTotalCost |-> FALSE, totalCost |-> 0, version |-> "", lastSaved |-> 0]

\* a text JSON.parse rejects
Garbage == [NoItem EXCEPT !.kind = "garbage"]

\* the JSON text of {records, totalCost, version, lastSaved}
Payload(rs, total, savedAt) ==
    [kind |-> "json", hasRecords |-> TRUE, records |-> rs,
     hasTotalCost |-> TRUE, totalCost |-> total, version |-> "1.0",
     lastSaved |-> savedAt]

\* the i-th record an earlier session left in storage: a trip of day
\* 1 + (i % 5), the third one from "A", the others from "b"
StoredRecord(i) ==
    LET ts   == (1 + (i % 5)) * DayMs + i
        sp   == IF i = 3 THEN <<"A">> ELSE <<"b">>
        toll == 1000 + (i % 3) * 1000
        fuel == (i % 2) * 7
    IN  MkRecord(MkId(ts, 0), toLocaleDateString(ts), RouteLabel(sp, <<"c">>),
                 sp, <<"c">>, toll, fuel, toll + fuel, ts)

StoredRecords(n) == [i \in 1..n |-> StoredRecord(i)]

\* a stored collection of more than two pages
LargeStore == 45
\* a stored collection of one page
SmallStore == 3

SavedBy(n) == Payload(StoredRecords(n), SumTotals(StoredRecords(n)), n)

\* parseable JSON of another shape: no totalCost field
NoTotalCostPayload ==
    [SavedBy(SmallStore) EXCEPT !.hasTotalCost = FALSE, !.totalCost = 0]

\* parseable JSON of another shape: no records field
NoRecordsPayload ==
    [kind |-> "json", hasRecords |-> FALSE, records |-> <<>>,
     hasTotalCost |-> TRUE, totalCost |-> 500, version |-> "1.0",
     lastSaved |-> 1]

\* a stored record whose total field is not toll + fuel, in a payload whose
\* totalCost is the sum of the stored totals
EditedRecord == [StoredRecord(1) EXCEPT !.total = 9999]

EditedRecordPayload == Payload(<<EditedRecord>>, 9999, 1)

\* what a session leaves that added the same trip twice within a millisecond,
\* around another trip: the first and the last record have the same timestamp
\* and the same total, and ids that differ in the draw of Math.random()
TiedRecords ==
    <<StoredRecord(1), StoredRecord(3),
      [StoredRecord(1) EXCEPT !.id = MkId(StoredRecord(1).timestamp, 1)]>>

TiedPayload == Payload(TiedRecords, SumTotals(TiedRecords), 1)

InitialStorage ==
    {NoItem, Garbage, SavedBy(SmallStore), SavedBy(LargeStore),
     NoTotalCostPayload, NoRecordsPayload, EditedRecordPayload}

\* loadFromLocalStorage leaving the aggregate total of the constructor
loadFromLocalStorage_noTotal(st, before) ==
    CASE st.kind = "json" /\ st.hasRecords ->
             [records |-> st.records, totalCost |-> before.totalCost]
      [] OTHER -> before

\* loadFromLocalStorage: the (records, totalCost) it leaves, given the ones
\* before the call
loadFromLocalStorage(st, before) ==
    CASE st.kind = "none"    -> before
      [] st.kind = "garbage" -> [records |-> <<>>, totalCost |-> 0]
      [] OTHER ->
           [records   |-> IF st.hasRecords THEN st.records ELSE <<>>,
            totalCost |-> IF st.hasTotalCost THEN st.totalCost ELSE 0]

\* saveToLocalStorage writing the state of the constructor
saveToLocalStorage_empty(rs, total, t) == Payload(<<>>, 0, t)

\* saveToLocalStorage: the item it writes
saveToLocalStorage(rs, total, t) == Payload(rs, total, t)

----------------------------------------------------------------------------
(* Sample history *)

\* the six places of generateMockHistory
Places == << <<"s">>, <<"w">>, <<"i">>, <<"p">>, <<"d">>, <<"g">> >>

\* simulateTollFee, u = Math.floor(Math.random() * 5000) in 0..4999
simulateTollFee(u) == u + 1000

\* the draws of Math.random() of one generateMockHistory call, restricted to
\* two streams: all draws least, or all draws greatest
MockSeeds == {0, 1}

MockRecord(i, seed, t) ==
    LET date == t - i * DayMs
        sp   == Places[((i + seed) % 6) + 1]
        ep   == Places[((i + seed + 1) % 6) + 1]
        toll == simulateTollFee(IF seed = 0 THEN 0 ELSE 4999)
        fuel == IF seed = 0 THEN 0 ELSE 49999
    IN  MkRecord(MkId(t + i, seed), toLocaleDateString(date),
                 RouteLabel(sp, ep), sp, ep, toll, fuel, toll + fuel, date)

generateMockHistory(days, seed, t) ==
    [k \in 1..days |-> MockRecord(k - 1, seed, t)]

\* loadMockData: the (records, totalCost) it leaves
loadMockData(cur, seed, t) ==
    IF Len(cur.records) > 0
    THEN cur
    ELSE LET mockData == generateMockHistory(5, seed, t)
         IN  [records   |-> cur.records \o mockData,
              totalCost |-> cur.totalCost + SumTotals(mockData)]

\* the readings of the clock a handler may get: the last one or a later one
ClockReadings(t) == {t, t + 1}

\* the readings of the clock of n rows processed one after the other, from
\* the reading t on: the clock stays or advances from one row to the next
RECURSIVE ClockRuns(_, _)
ClockRuns(t, n) ==
    IF n = 0
    THEN {<<>>}
    ELSE UNION {{<<first>> \o rest : rest \in ClockRuns(first, n - 1)} :
                   first \in ClockReadings(t)}

----------------------------------------------------------------------------
(* The list on display *)

\* the list updateRecordsList, getTotalPages and handleSort work on
displayedRecords(filtered, rs) == IF Len(filtered) > 0 THEN filtered ELSE rs

\* Math.ceil(n / d) for n >= 0, d > 0
Ceil(n, d) == (n + d - 1) \div d

getTotalPages(filtered, rs) ==
    Ceil(Len(displayedRecords(filtered, rs)), recordsPerPage)

\* Array.prototype.slice(startIndex, endIndex), 0-based, end excluded
slice(s, startIndex, endIndex) ==
    LET lo == IF startIndex < Len(s) THEN startIndex ELSE Len(s)
        hi == IF endIndex < Len(s) THEN endIndex ELSE Len(s)
    IN  SubSeq(s, lo + 1, hi)

\* pageRecords starting at the end of the page
pageRecords_fromPageEnd(filtered, rs, page) ==
    LET startIndex == page * recordsPerPage
        endIndex   == startIndex + recordsPerPage
    IN  slice(displayedRecords(filtered, rs), startIndex, endIndex)

\* the records updateRecordsList renders
pageRecords(filtered, rs, page) ==
    LET startIndex == (page - 1) * recordsPerPage
        endIndex   == startIndex + recordsPerPage
    IN  slice(displayedRecords(filtered, rs), startIndex, endIndex)

\* the predicate of the filter of handleSearch
matches(record, searchTerm) ==
    \/ includes(toLowerCase(record.route), searchTerm)
    \/ includes(record.date, searchTerm)

\* searchResult giving every record twice for the empty term
searchResult_doubled(rs, inputValue) ==
    LET searchTerm == trim(toLowerCase(inputValue))
    IN  IF searchTerm = <<>>
        THEN rs \o rs
        ELSE SelectSeq(rs, LAMBDA r : matches(r, searchTerm))

\* what handleSearch assigns to filteredRecords
searchResult(rs, inputValue) ==
    LET searchTerm == trim(toLowerCase(inputValue))
    IN  IF searchTerm = <<>>
        THEN rs
        ELSE SelectSeq(rs, LAMBDA r : matches(r, searchTerm))

SortValues == {"date-desc", "date-asc", "cost-desc", "cost-asc", ""}

\* the comparator handleSort passes to Array.prototype.sort
compare(sortValue, a, b) ==
    CASE sortValue = "date-desc" -> b.timestamp - a.timestamp
      [] sortValue = "date-asc"  -> a.timestamp - b.timestamp
      [] sortValue = "cost-desc" -> b.total - a.total
      [] sortValue = "cost-asc"  -> a.total - b.total
      [] OTHER                   -> 0

\* insertSorted putting r in front of the elements that compare equal to it
RECURSIVE insertSorted_beforeEqual(_, _, _)
insertSorted_beforeEqual(sortValue, sorted, r) ==
    IF sorted = <<>> \/ compare(sortValue, sorted[Len(sorted)], r) < 0
    THEN Append(sorted, r)
    ELSE Append(insertSorted_beforeEqual(
                    sortValue, SubSeq(sorted, 1, Len(sorted) - 1), r),
                sorted[Len(sorted)])

\* Array.prototype.sort is stable (ECMAScript 2019): r goes behind every
\* element that does not compare greater than it
RECURSIVE insertSorted(_, _, _)
insertSorted(sortValue, sorted, r) ==
    IF sorted = <<>> \/ compare(sortValue, sorted[Len(sorted)], r) <= 0
    THEN Append(sorted, r)
    ELSE Append(insertSorted(sortValue, SubSeq(sorted, 1, Len(sorted) - 1), r),
                sorted[Len(sorted)])

\* sortInto taking the elements last to first
RECURSIVE sortInto_lastFirst(_, _, _)
sortInto_lastFirst(sortValue, sorted, rest) ==
    IF rest = <<>>
    THEN sorted
    ELSE sortInto_lastFirst(sortValue,
                            insertSorted(sortValue, sorted, rest[Len(rest)]),
                            SubSeq(rest, 1, Len(rest) - 1))

\* the elements of rest put into sorted one after the other, first to last
RECURSIVE sortInto(_, _, _)
sortInto(sortValue, sorted, rest) ==
    IF rest = <<>>
    THEN sorted
    ELSE sortInto(sortValue, insertSorted(sortValue, sorted, Head(rest)),
                  Tail(rest))

sort(sortValue, rs) == sortInto(sortValue, <<>>, rs)

----------------------------------------------------------------------------
(* Form input and imported rows *)

\* the inputs of a submit: the values of the three fields, the result of
\* simulateTollFee and the draw of Math.random() for the id
FormInput(startPointValue, endPointValue, fuelCostValue, tollFee, frac) ==
    [startPoint |-> startPointValue, endPoint |-> endPointValue,
     fuelCost |-> fuelCostValue, tollFee |-> tollFee, frac |-> frac]

\* values of the search box: empty, "A" behind a space, and a letter that
\* only the date of an imported row holds, in upper case
SearchInputs == {<<>>, <<" ", "A">>, <<"j">>}

\* validateForm comparing the values as typed, white space included
validateForm_untrimmed(startPointValue, endPointValue) ==
    {f \in {"startPoint"} : startPointValue = <<>>}
        \cup {f \in {"endPoint"} : endPointValue = <<>>}

\* validateForm: the fields it writes an error message for
validateForm(startPointValue, endPointValue) ==
    {f \in {"startPoint"} : trim(startPointValue) = <<>>}
        \cup {f \in {"endPoint"} : trim(endPointValue) = <<>>}

\* the record handleFormSubmit builds
formRecord(in, t) ==
    LET startPoint == trim(in.startPoint)
        endPoint   == trim(in.endPoint)
        tollFee    == in.tollFee
        fuelCost   == OrZero(parseIntStr(in.fuelCost))
    IN  MkRecord(MkId(t, in.frac), toLocaleDateString(t),
                 RouteLabel(startPoint, endPoint), startPoint, endPoint,
                 tollFee, fuelCost, tollFee + fuelCost, t)

\* a cell of a row of XLSX.utils.sheet_to_json: absent, a text or a number
Missing == [kind |-> "missing", s |-> <<>>, n |-> 0]
Str(s) == [kind |-> "str", s |-> s, n |-> 0]
Number(n) == [kind |-> "num", s |-> <<>>, n |-> n]

\* cell || fallback, for a cell that is absent or a text
OrText(cell, fallback) ==
    IF cell.kind = "str" /\ cell.s # <<>> THEN cell.s ELSE fallback

\* parseInt(cell): of undefined NaN, of an integer the integer
parseInt(cell) ==
    CASE cell.kind = "missing" -> NaN
      [] cell.kind = "num"     -> Num(cell.n)
      [] OTHER                 -> parseIntStr(cell.s)

\* the label of a missing origin or destination
Unknown == <<"?">>

Row(date, startPoint, endPoint, route, toll, fuel, total) ==
    [date |-> date, startPoint |-> startPoint, endPoint |-> endPoint,
     route |-> route, toll |-> toll, fuel |-> fuel, total |-> total]

\* a row as handleExport writes it
ExportedRow ==
    Row(Str(<<"1", ".", " ", "8", ".">>), Str(<<"A">>), Str(<<"b">>),
        Str(<<"A", " ", ">", " ", "b">>), Number(1000), Number(7), Number(1007))

\* a row with no date, origin or route, an empty destination, a negative toll,
\* a fuel cost that is no number and a total of its own
SparseRow ==
    Row(Missing, Missing, Str(<<>>), Missing, Number(0 - 1000), Str(<<"x">>),
        Number(5))

\* a row with a date written in letters, a route column that is not its
\* origin and destination, and a toll with a unit behind the number
ForeignRow ==
    Row(Str(<<"J", "1">>), Str(<<"b">>), Str(<<"b">>), Str(<<"z">>),
        Str(<<"1", "2", "x">>), Missing, Missing)

ImportRows == {ExportedRow, SparseRow, ForeignRow}

\* importRecord with the reading of the clock as timestamp
importRecord_clockOnly(row, importedCount, frac, t) ==
    LET startPoint == OrText(row.startPoint, Unknown)
        endPoint   == OrText(row.endPoint, Unknown)
    IN  MkRecord(MkId(t, frac),
                 OrText(row.date, toLocaleDateString(t)),
                 OrText(row.route, RouteLabel(startPoint, endPoint)),
                 startPoint, endPoint,
                 OrZero(parseInt(row.toll)),
                 OrZero(parseInt(row.fuel)),
                 OrZero(parseInt(row.toll)) + OrZero(parseInt(row.fuel)),
                 t)

\* the record handleUpload builds of a row, importedCount rows before it
importRecord(row, importedCount, frac, t) ==
    LET startPoint == OrText(row.startPoint, Unknown)
        endPoint   == OrText(row.endPoint, Unknown)
    IN  MkRecord(MkId(t, frac),
                 OrText(row.date, toLocaleDateString(t)),
                 OrText(row.route, RouteLabel(startPoint, endPoint)),
                 startPoint, endPoint,
                 OrZero(parseInt(row.toll)),
                 OrZero(parseInt(row.fuel)),
                 OrZero(parseInt(row.toll)) + OrZero(parseInt(row.fuel)),
                 t + importedCount)

\* the rows handleExport hands to XLSX.utils.json_to_sheet, one for a record.
\* The sheet keeps a text as a text and a number as a number; an empty text
\* is read back as empty or as absent, which the import does not tell apart.
exportData(rs) ==
    [i \in 1..Len(rs) |->
        Row(Str(rs[i].date), Str(rs[i].startPoint), Str(rs[i].endPoint),
            Str(rs[i].route), Number(rs[i].toll), Number(rs[i].fuel),
            Number(rs[i].total))]

\* importRecords taking the rows last to first
importRecords_reversed(jsonData, fracs, t) ==
    [k \in 1..Len(jsonData) |->
        importRecord(jsonData[Len(jsonData) + 1 - k], k - 1, fracs[k], t[k])]

\* the records of jsonData.forEach, in row order; fracs[k] is the draw of
\* Math.random() and t[k] the reading of the clock for row k
importRecords(jsonData, fracs, t) ==
    [k \in 1..Len(jsonData) |->
        importRecord(jsonData[k], k - 1, fracs[k], t[k])]

----------------------------------------------------------------------------
(* The service worker (src/unnamed/part_000). A request is its method, the *)
(* protocol and host name of its URL and the segments of the path: the     *)
(* path "/api/data" is <<"api", "data">> and the path "/" is <<"">>.       *)

Request(method, protocol, hostname, pathname) ==
    [method |-> method, protocol |-> protocol, hostname |-> hostname,
     pathname |-> pathname]

NoRequest == Request("", "", "", <<>>)

AppJs == Request("GET", "https:", "app.example", <<"app.js">>)
ApiData == Request("GET", "https:", "app.example", <<"api", "data">>)
XlsxScript ==
    Request("GET", "https:", "cdnjs.cloudflare.com",
            <<"ajax", "libs", "xlsx", "0.18.5", "xlsx.full.min.js">>)
FontFile == Request("GET", "https:", "fonts.gstatic.com", <<"s", "f.woff2">>)
Picture == Request("GET", "https:", "app.example", <<"img.png">>)
PostForm == Request("POST", "https:", "app.example", <<"api", "data">>)

Requests == {AppJs, ApiData, XlsxScript, FontFile, Picture, PostForm}

\* a response is its status and the version of the resource it carries
Response(status, version) == [status |-> status, version |-> version]

\* Response.ok
ok(response) == response.status >= 200 /\ response.status <= 299

\* what cache.match gives when the cache holds no response
NoResponse == Response(0, 0)

\* fetch() rejecting
NetworkError == Response(-1, 0)

\* what fetch() may give: a response of one of two versions of the resource,
\* a response that is not OK, or a rejection
NetworkOutcomes ==
    {Response(200, 1), Response(200, 2), Response(404, 0), NetworkError}

STATIC_CACHE_NAME == "static-v1.0.0"
RUNTIME_CACHE_NAME == "runtime-v1.0.0"
LibrariesCacheName == "libraries-v1"
FontsCacheName == "fonts-v1"

\* the caches, in the order caches.keys() gives them
CacheNames ==
    <<STATIC_CACHE_NAME, RUNTIME_CACHE_NAME, LibrariesCacheName, FontsCacheName>>

\* the last segments of the paths of CRITICAL_RESOURCES
CRITICAL_RESOURCES == {"", "index.html", "app.js", "styles.css", "manifest.json"}

\* RUNTIME_CACHE_URLS, their query strings cut off
RUNTIME_CACHE_URLS ==
    {[hostname |-> "cdnjs.cloudflare.com",
      pathname |-> <<"ajax", "libs", "xlsx", "0.18.5", "xlsx.full.min.js">>],
     [hostname |-> "fonts.googleapis.com", pathname |-> <<"css2">>]}

\* url.pathname.endsWith(resource) for one of the critical resources
isCriticalResource(request) ==
    /\ request.pathname # <<>>
    /\ request.pathname[Len(request.pathname)] \in CRITICAL_RESOURCES

\* url.pathname.startsWith('/api/')
isApiRequest(url) == Len(url.pathname) >= 2 /\ url.pathname[1] = "api"

\* url.href.startsWith(cacheUrl) for one of the runtime cache URLs
isExternalLibrary(url) ==
    \E cacheUrl \in RUNTIME_CACHE_URLS :
        /\ url.hostname = cacheUrl.hostname
        /\ Len(url.pathname) >= Len(cacheUrl.pathname)
        /\ SubSeq(url.pathname, 1, Len(cacheUrl.pathname)) = cacheUrl.pathname

\* the host is one of the two font hosts or the path has a segment "fonts"
isFontRequest(url) ==
    \/ url.hostname \in {"fonts.googleapis.com", "fonts.gstatic.com"}
    \/ \E i \in 1..Len(url.pathname) : url.pathname[i] = "fonts"

\* caches with no response in them
EmptyCaches ==
    [name \in {CacheNames[i] : i \in 1..Len(CacheNames)} |->
        [request \in Requests |-> NoResponse]]

\* cache.put(request, response) on the cache cacheName
put(caches, cacheName, request, response) ==
    [caches EXCEPT ![cacheName][request] = response]

\* the install event: cache.addAll(CRITICAL_RESOURCES) stores the critical
\* resources, or rejects and stores none when one of them is not OK
InstalledCaches ==
    {EmptyCaches, put(EmptyCaches, STATIC_CACHE_NAME, AppJs, Response(200, 1))}

\* what a strategy does: the response it returns and where it is from, the
\* caches after its cache.put, the requests it gave to fetch(), those of
\* them it does not wait for, and whether it threw
Outcome(response, source, caches, fetches, background, threw) ==
    [response |-> response, source |-> source, caches |-> caches,
     fetches |-> fetches, background |-> background, threw |-> threw]

\* cacheFirst storing every response of the network
cacheFirst_putsAll(caches, request, cacheName, net) ==
    LET cachedResponse == caches[cacheName][request]
    IN  IF cachedResponse # NoResponse
        THEN Outcome(cachedResponse, "cache", caches, <<>>, <<>>, FALSE)
        ELSE IF net = NetworkError
        THEN Outcome(NoResponse, "error", caches, <<request>>, <<>>, TRUE)
        ELSE Outcome(net, "network", put(caches, cacheName, request, net),
                     <<request>>, <<>>, FALSE)

\* cacheFirst: the cached response when there is one; else the response of
\* the network, stored when it is OK; net is what fetch() gives
cacheFirst(caches, request, cacheName, net) ==
    LET cachedResponse == caches[cacheName][request]
    IN  IF cachedResponse # NoResponse
        THEN Outcome(cachedResponse, "cache", caches, <<>>, <<>>, FALSE)
        ELSE IF net = NetworkError
        THEN Outcome(NoResponse, "error", caches, <<request>>, <<>>, TRUE)
        ELSE Outcome(net, "network",
                     IF ok(net)
                     THEN put(caches, cacheName, request, net)
                     ELSE caches,
                     <<request>>, <<>>, FALSE)

\* networkFirst: the response of the network, stored when it is OK; the
\* cached response when fetch() rejects
networkFirst(caches, request, cacheName, net) ==
    LET cachedResponse == caches[cacheName][request]
    IN  IF net # NetworkError
        THEN Outcome(net, "network",
                     IF ok(net)
                     THEN put(caches, cacheName, request, net)
                     ELSE caches,
                     <<request>>, <<>>, FALSE)
        ELSE IF cachedResponse # NoResponse
        THEN Outcome(cachedResponse, "cache", caches, <<request>>, <<>>, FALSE)
        ELSE Outcome(NoResponse, "error", caches, <<request>>, <<>>, TRUE)

\* staleWhileRevalidate: updateCache() starts its fetch and is not waited
\* for; the cached response when there is one, else the response of a second
\* fetch, which is not stored
staleWhileRevalidate(caches, request, cacheName, net) ==
    LET cachedResponse == caches[cacheName][request]
    IN  IF cachedResponse # NoResponse
        THEN Outcome(cachedResponse, "cache", caches, <<request>>,
                     <<request>>, FALSE)
        ELSE IF net = NetworkError
        THEN Outcome(NoResponse, "error", caches, <<request, request>>,
                     <<request>>, TRUE)
        ELSE Outcome(net, "network", caches, <<request, request>>,
                     <<request>>, FALSE)

\* fetch(request) with no cache
networkOnly(caches, request, net) ==
    IF net = NetworkError
    THEN Outcome(NoResponse, "error", caches, <<request>>, <<>>, TRUE)
    ELSE Outcome(net, "network", caches, <<request>>, <<>>, FALSE)

\* the first response for the request in any cache
getFromCache(caches, request) ==
    LET hits == {i \in 1..Len(CacheNames) :
                    caches[CacheNames[i]][request] # NoResponse}
    IN  IF hits = {}
        THEN NoResponse
        ELSE caches[CacheNames[CHOOSE i \in hits : \A j \in hits : i <= j]][request]

\* the page createOfflineFallback makes
OfflineFallback == Response(200, 0)

\* the strategy handleRequest chooses for the request
strategy(caches, request, net) ==
    IF isCriticalResource(request)
    THEN cacheFirst(caches, request, STATIC_CACHE_NAME, net)
    ELSE IF isApiRequest(request)
    THEN networkFirst(caches, request, RUNTIME_CACHE_NAME, net)
    ELSE IF isExternalLibrary(request)
    THEN staleWhileRevalidate(caches, request, LibrariesCacheName, net)
    ELSE IF isFontRequest(request)
    THEN cacheFirst(caches, request, FontsCacheName, net)
    ELSE networkOnly(caches, request, net)

\* handleRequest: the strategy of the request; when it throws, a critical
\* resource is answered from any cache or with the offline page, and for
\* another request the error is thrown again
handleRequest(caches, request, net) ==
    LET tried == strategy(caches, request, net)
    IN  IF ~tried.threw
        THEN tried
        ELSE IF ~isCriticalResource(request)
        THEN tried
        ELSE IF getFromCache(caches, request) # NoResponse
        THEN [tried EXCEPT !.response = getFromCache(caches, request),
                           !.source = "cache", !.threw = FALSE]
        ELSE [tried EXCEPT !.response = OfflineFallback,
                           !.source = "fallback", !.threw = FALSE]

\* the worker before it is registered
NotRegistered ==
    /\ cacheStorage = EmptyCaches
    /\ fetched = <<>>
    /\ responded = [request |-> NoRequest, response |-> NoResponse,
                    source |-> "none"]
    /\ revalidating = <<>>
    /\ nRequests = 0

\* the worker after its install event
Installed ==
    /\ cacheStorage \in InstalledCaches
    /\ fetched = <<>>
    /\ responded = [request |-> NoRequest, response |-> NoResponse,
                    source |-> "none"]
    /\ revalidating = <<>>
    /\ nRequests = 0

\* a fetch event: a request that is not a GET of an http URL is left to the
\* browser; else the worker responds with what handleRequest gives
fetchEvent ==
    /\ nRequests < MaxRequests
    /\ nRequests' = nRequests + 1
    /\ \E request \in Requests, net \in NetworkOutcomes :
         IF request.method # "GET" \/ request.protocol \notin {"http:", "https:"}
         THEN /\ responded' = [request |-> request, response |-> NoResponse,
                               source |-> "skipped"]
              /\ UNCHANGED <<cacheStorage, fetched, revalidating>>
         ELSE LET done == handleRequest(cacheStorage, request, net)
              IN  /\ responded' = [request |-> request,
                                   response |-> done.response,
                                   source |-> done.source]
                  /\ cacheStorage' = done.caches
                  /\ fetched' = fetched \o done.fetches
                  /\ revalidating' = revalidating \o done.background
    /\ UNCHANGED pageVars

\* the fetch of an updateCache() under way ends: its response is stored when
\* it is OK, and a rejection is logged
updateCacheDone ==
    /\ \E i \in 1..Len(revalidating), net \in NetworkOutcomes :
         /\ cacheStorage' =
                IF net # NetworkError /\ ok(net)
                THEN put(cacheStorage, LibrariesCacheName, revalidating[i], net)
                ELSE cacheStorage
         /\ revalidating' = SubSeq(revalidating, 1, i - 1)
                               \o SubSeq(revalidating, i + 1, Len(revalidating))
    /\ UNCHANGED <<fetched, responded, nRequests, pageVars>>

\* one step of the service worker
NextWorker ==
    \/ fetchEvent
    \/ updateCacheDone

----------------------------------------------------------------------------
(* The state after the constructor's field initialisers, before init(),    *)
(* with one of the items `stored` in localStorage                          *)

\* the fields of a CarExpenseTracker that has not run init()
Constructed ==
    /\ records = <<>>
    /\ filteredRecords = <<>>
    /\ totalCost = 0
    /\ currentPage = 1
    /\ searchInput = <<>>
    /\ searchTimer = FALSE
    /\ saveTimer = FALSE
    /\ formErrors = {}
    /\ sortSelect = ""
    /\ exportBtn = FALSE
    /\ uploadBtn = FALSE
    /\ exportsInFlight = 0
    /\ uploadWait = "idle"
    /\ isSheetJSLoaded = FALSE
    /\ errorToast = ""

\* the page constructed, with one of the items `stored` in localStorage
Loaded(stored) ==
    /\ Constructed
    /\ storage \in stored
    /\ now = StartTime
    /\ nMutations = 0
    /\ pc = "constructed"
    /\ session = 1
    /\ setItemThrows = FALSE

InitWith(stored) ==
    /\ Loaded(stored)
    /\ NotRegistered

----------------------------------------------------------------------------
(* Handlers. A handler that takes input takes it from a set the            *)
(* specification gives: the values of the form fields, of the search box   *)
(* and of the sort selector, the sheets of the uploaded file and the draws *)
(* of Math.random() for the ids of its rows.                               *)

\* init(): loadFromLocalStorage, then loadMockData, then updateUI, whose
\* updateExportButton disables the export button of an empty collection
init ==
    /\ pc = "constructed"
    /\ \E seed \in MockSeeds :
         LET loaded == loadFromLocalStorage(
                           storage, [records |-> records, totalCost |-> totalCost])
             seeded == loadMockData(loaded, seed, now)
         IN  /\ records' = seeded.records
             /\ totalCost' = seeded.totalCost
             /\ exportBtn' = (Len(seeded.records) = 0)
    /\ pc' = "ready"
    /\ UNCHANGED <<filteredRecords, currentPage, searchInput, searchTimer,
                   saveTimer, storage, now, nMutations, formErrors, sortSelect,
                   uploadBtn, exportsInFlight, uploadWait, isSheetJSLoaded,
                   session, errorToast,
                   setItemThrows,
                   workerVars>>

\* addRecord leaving totalCost as it was
addRecord_sameTotal(rs, total, record) ==
    [records |-> <<record>> \o rs, totalCost |-> total]

\* addRecord(record): the (records, totalCost) it leaves
addRecord(rs, total, record) ==
    [records |-> <<record>> \o rs, totalCost |-> total + record.total]

\* handleFormSubmit with the input `in`, the clock reading t. validateForm
\* failing, the handler returns; else addRecord, which ends with updateUI
\* and debouncedSave(), then clearForm
handleFormSubmit(in, t) ==
    /\ pc = "ready"
    /\ IF validateForm(in.startPoint, in.endPoint) # {}
       THEN /\ formErrors' = validateForm(in.startPoint, in.endPoint)
            /\ UNCHANGED <<records, totalCost, saveTimer, now, nMutations,
                           exportBtn>>
       ELSE /\ LET added == addRecord(records, totalCost, formRecord(in, t))
               IN  /\ records' = added.records
                   /\ totalCost' = added.totalCost
                   /\ exportBtn' = (Len(added.records) = 0)
            /\ saveTimer' = TRUE
            /\ formErrors' = {}
            /\ now' = t
            /\ nMutations' = nMutations + 1
    /\ UNCHANGED <<filteredRecords, currentPage, searchInput, searchTimer,
                   storage, pc, sortSelect, uploadBtn, exportsInFlight, uploadWait,
                   isSheetJSLoaded, session, errorToast,
                   setItemThrows,
                   workerVars>>

\* a submit event of the form; a run holds at most `cap` adds and imports
submit(forms, cap) ==
    \E in \in forms, t \in ClockReadings(now) :
        /\ validateForm(in.startPoint, in.endPoint) = {} => nMutations < cap
        /\ handleFormSubmit(in, t)

\* searchInputEvent calling handleSearch at once
searchInputEvent_immediate(values) ==
    /\ pc = "ready"
    /\ \E value \in values :
         /\ value # searchInput
         /\ searchInput' = value
         /\ filteredRecords' = searchResult(records, value)
    /\ currentPage' = 1
    /\ searchTimer' = FALSE
    /\ UNCHANGED <<records, totalCost, saveTimer, storage, now, nMutations, pc,
                   formErrors, sortSelect, sheetVars, session, errorToast,
                   setItemThrows,
                   workerVars>>

\* an input event of the search box: debouncedSearch() restarts its timeout
searchInputEvent(values) ==
    /\ pc = "ready"
    /\ \E value \in values :
         /\ value # searchInput
         /\ searchInput' = value
    /\ searchTimer' = TRUE
    /\ UNCHANGED <<records, filteredRecords, totalCost, currentPage, saveTimer,
                   storage, now, nMutations, pc, formErrors, sortSelect,
                   sheetVars, session, errorToast,
                   setItemThrows,
                   workerVars>>

\* handleSearch leaving the current page
handleSearch_keepsPage ==
    /\ pc = "ready"
    /\ searchTimer
    /\ filteredRecords' = searchResult(records, searchInput)
    /\ searchTimer' = FALSE
    /\ UNCHANGED <<records, totalCost, currentPage, searchInput, saveTimer,
                   storage, now, nMutations, pc, formErrors, sortSelect,
                   sheetVars, session, errorToast, setItemThrows,
                   workerVars>>

\* the timeout of debouncedSearch fires: handleSearch
handleSearch ==
    /\ pc = "ready"
    /\ searchTimer
    /\ filteredRecords' = searchResult(records, searchInput)
    /\ currentPage' = 1
    /\ searchTimer' = FALSE
    /\ UNCHANGED <<records, totalCost, searchInput, saveTimer, storage, now,
                   nMutations, pc, formErrors, sortSelect, sheetVars, session, errorToast,
                   setItemThrows,
                   workerVars>>

\* a change event of the sort selector, its value sortValue: handleSort
handleSort(sortValue) ==
    /\ pc = "ready"
    /\ LET sortedRecords ==
               sort(sortValue, displayedRecords(filteredRecords, records))
       IN  IF Len(filteredRecords) > 0
           THEN filteredRecords' = sortedRecords /\ UNCHANGED records
           ELSE records' = sortedRecords /\ UNCHANGED filteredRecords
    /\ currentPage' = 1
    /\ sortSelect' = sortValue
    /\ UNCHANGED <<totalCost, searchInput, searchTimer, saveTimer, storage, now,
                   nMutations, pc, formErrors, sheetVars, session, errorToast,
                   setItemThrows,
                   workerVars>>

sortChange(sortValues) == \E sortValue \in sortValues : handleSort(sortValue)

\* changePage testing the upper end of the range only
changePage_upperOnly(direction) ==
    /\ pc = "ready"
    /\ LET totalPages == getTotalPages(filteredRecords, records)
           newPage    == currentPage + direction
       IN  IF newPage <= totalPages
           THEN currentPage' = newPage
           ELSE UNCHANGED currentPage
    /\ UNCHANGED <<records, filteredRecords, totalCost, searchInput, searchTimer,
                   saveTimer, storage, now, nMutations, pc, formErrors,
                   sortSelect, sheetVars, session, errorToast,
                   setItemThrows,
                   workerVars>>

\* a click on the previous (-1) or next (+1) control: changePage(direction)
changePage(direction) ==
    /\ pc = "ready"
    /\ LET totalPages == getTotalPages(filteredRecords, records)
           newPage    == currentPage + direction
       IN  IF newPage >= 1 /\ newPage <= totalPages
           THEN currentPage' = newPage
           ELSE UNCHANGED currentPage
    /\ UNCHANGED <<records, filteredRecords, totalCost, searchInput, searchTimer,
                   saveTimer, storage, now, nMutations, pc, formErrors,
                   sortSelect, sheetVars, session, errorToast,
                   setItemThrows,
                   workerVars>>

pageClick == \E direction \in {-1, 1} : changePage(direction)

\* handleUpload once the library is loaded and the file is read, jsonData
\* the rows of its first sheet, t the readings of the clock row by row: the
\* rows are pushed in order, then updateUI and debouncedSave(), and at last
\* the upload button is enabled
handleUpload(jsonData, fracs, t) ==
    /\ pc = "ready"
    /\ LET imported == importRecords(jsonData, fracs, t)
       IN  /\ records' = records \o imported
           /\ totalCost' = totalCost + SumTotals(imported)
           /\ exportBtn' = (Len(records \o imported) = 0)
    /\ saveTimer' = TRUE
    /\ now' = IF t = <<>> THEN now ELSE t[Len(t)]
    /\ nMutations' = nMutations + 1
    /\ uploadBtn' = FALSE
    /\ uploadWait' = "idle"
    /\ isSheetJSLoaded' = TRUE
    /\ UNCHANGED <<filteredRecords, currentPage, searchInput, searchTimer,
                   storage, pc, formErrors, sortSelect, exportsInFlight,
                   session, errorToast,
                   setItemThrows,
                   workerVars>>

\* a file chosen with the upload button, and no other event before the
\* library is loaded and the file is read
upload(sheets, draws, cap) ==
    /\ ~uploadBtn
    /\ uploadWait = "idle"
    /\ nMutations < cap
    /\ \E jsonData \in sheets :
          \E fracs \in [1..Len(jsonData) -> draws],
             t \in ClockRuns(now, Len(jsonData)) :
              handleUpload(jsonData, fracs, t)

\* a click on the export button, which a disabled button does not give. With
\* no record the handler returns; with the library loaded it runs to its end
\* and leaves the button enabled; else it disables the button and waits for
\* the script that its loadSheetJS call appended
handleExport ==
    /\ pc = "ready"
    /\ ~exportBtn
    /\ IF Len(records) = 0 \/ isSheetJSLoaded
       THEN UNCHANGED <<exportBtn, exportsInFlight>>
       ELSE /\ exportsInFlight < MaxInFlight
            /\ exportBtn' = TRUE
            /\ exportsInFlight' = exportsInFlight + 1
    /\ UNCHANGED <<records, filteredRecords, totalCost, currentPage, searchInput,
                   searchTimer, saveTimer, storage, now, nMutations, pc,
                   formErrors, sortSelect, uploadBtn, uploadWait,
                   isSheetJSLoaded, session, errorToast,
                   setItemThrows,
                   workerVars>>

\* onload of the script of a waiting handleExport: the flag is set, the file
\* of exportData(records) is written and the button is enabled
exportScriptLoaded ==
    /\ pc = "ready"
    /\ exportsInFlight > 0
    /\ isSheetJSLoaded' = TRUE
    /\ exportsInFlight' = exportsInFlight - 1
    /\ exportBtn' = FALSE
    /\ UNCHANGED <<records, filteredRecords, totalCost, currentPage, searchInput,
                   searchTimer, saveTimer, storage, now, nMutations, pc,
                   formErrors, sortSelect, uploadBtn, uploadWait, session, errorToast,
                   setItemThrows,
                   workerVars>>

\* a file chosen in the dialog that the upload button opens: handleUpload
\* disables the button and waits for the library, or with the library loaded
\* for the file to be read
uploadFileChange ==
    /\ pc = "ready"
    /\ ~uploadBtn
    /\ uploadBtn' = TRUE
    /\ uploadWait' = IF isSheetJSLoaded THEN "read" ELSE "load"
    /\ UNCHANGED <<records, filteredRecords, totalCost, currentPage, searchInput,
                   searchTimer, saveTimer, storage, now, nMutations, pc,
                   formErrors, sortSelect, exportBtn, exportsInFlight,
                   isSheetJSLoaded, session, errorToast,
                   setItemThrows,
                   workerVars>>

\* onload of the script of the waiting handleUpload, which goes on to readFile
uploadScriptLoaded ==
    /\ pc = "ready"
    /\ uploadWait = "load"
    /\ isSheetJSLoaded' = TRUE
    /\ uploadWait' = "read"
    /\ UNCHANGED <<records, filteredRecords, totalCost, currentPage, searchInput,
                   searchTimer, saveTimer, storage, now, nMutations, pc,
                   formErrors, sortSelect, exportBtn, uploadBtn,
                   exportsInFlight, session, errorToast,
                   setItemThrows,
                   workerVars>>

\* onload of the FileReader of the waiting handleUpload
fileRead(sheets, draws, cap) ==
    /\ uploadWait = "read"
    /\ nMutations < cap
    /\ \E jsonData \in sheets :
          \E fracs \in [1..Len(jsonData) -> draws],
             t \in ClockRuns(now, Len(jsonData)) :
              handleUpload(jsonData, fracs, t)

\* onerror of the script of a waiting handleExport: loadSheetJS shows the
\* error toast and returns false, handleExport returns and its finally block
\* enables the button
exportScriptError ==
    /\ pc = "ready"
    /\ exportsInFlight > 0
    /\ exportsInFlight' = exportsInFlight - 1
    /\ exportBtn' = FALSE
    /\ errorToast' = "loadFailed"
    /\ UNCHANGED <<records, filteredRecords, totalCost, currentPage, searchInput,
                   searchTimer, saveTimer, storage, now, nMutations, pc,
                   formErrors, sortSelect, uploadBtn, uploadWait,
                   isSheetJSLoaded, session, setItemThrows,
                   workerVars>>

\* uploadScriptError without the finally block of handleUpload
uploadScriptError_keepsLoading ==
    /\ pc = "ready"
    /\ uploadWait = "load"
    /\ uploadWait' = "idle"
    /\ errorToast' = "loadFailed"
    /\ UNCHANGED <<records, filteredRecords, totalCost, currentPage, searchInput,
                   searchTimer, saveTimer, storage, now, nMutations, pc,
                   formErrors, sortSelect, exportBtn, uploadBtn,
                   exportsInFlight, isSheetJSLoaded, session, setItemThrows,
                   workerVars>>

\* onerror of the script of the waiting handleUpload: loadSheetJS shows the
\* error toast and returns false, handleUpload returns and its finally block
\* enables the button
uploadScriptError ==
    /\ pc = "ready"
    /\ uploadWait = "load"
    /\ uploadWait' = "idle"
    /\ uploadBtn' = FALSE
    /\ errorToast' = "loadFailed"
    /\ UNCHANGED <<records, filteredRecords, totalCost, currentPage, searchInput,
                   searchTimer, saveTimer, storage, now, nMutations, pc,
                   formErrors, sortSelect, exportBtn, exportsInFlight,
                   isSheetJSLoaded, session, setItemThrows,
                   workerVars>>

\* fileReadError calling debouncedSave
fileReadError_schedulesSave ==
    /\ pc = "ready"
    /\ uploadWait = "read"
    /\ uploadWait' = "idle"
    /\ uploadBtn' = FALSE
    /\ errorToast' = "uploadFailed"
    /\ saveTimer' = TRUE
    /\ UNCHANGED <<records, filteredRecords, totalCost, currentPage, searchInput,
                   searchTimer, storage, now, nMutations, pc, formErrors,
                   sortSelect, exportBtn, exportsInFlight, isSheetJSLoaded,
                   session, setItemThrows,
                   workerVars>>

\* onerror of the FileReader of the waiting handleUpload, or XLSX.read
\* throwing on what was read: the catch block shows the error toast and the
\* finally block enables the button
fileReadError ==
    /\ pc = "ready"
    /\ uploadWait = "read"
    /\ uploadWait' = "idle"
    /\ uploadBtn' = FALSE
    /\ errorToast' = "uploadFailed"
    /\ UNCHANGED <<records, filteredRecords, totalCost, currentPage, searchInput,
                   searchTimer, saveTimer, storage, now, nMutations, pc,
                   formErrors, sortSelect, exportBtn, exportsInFlight,
                   isSheetJSLoaded, session, setItemThrows,
                   workerVars>>

\* setItem losing the stored item when it throws
setItem_clears(item) == IF setItemThrows THEN NoItem ELSE item

\* the localStorage item after the try block of saveToLocalStorage: setItem
\* stores item or throws, the catch block logs the error and returns
setItem(item) == IF setItemThrows THEN storage ELSE item

\* the timeout of debouncedSave firing without being cleared
saveTimerFires_keepsTimer ==
    /\ pc = "ready"
    /\ saveTimer
    /\ storage' = setItem(saveToLocalStorage(records, totalCost, now))
    /\ UNCHANGED <<records, filteredRecords, totalCost, currentPage, searchInput,
                   searchTimer, saveTimer, now, nMutations, pc, formErrors,
                   sortSelect, sheetVars, session, errorToast,
                   setItemThrows,
                   workerVars>>

\* the timeout of debouncedSave fires: saveToLocalStorage
saveTimerFires ==
    /\ pc = "ready"
    /\ saveTimer
    /\ storage' = setItem(saveToLocalStorage(records, totalCost, now))
    /\ saveTimer' = FALSE
    /\ UNCHANGED <<records, filteredRecords, totalCost, currentPage, searchInput,
                   searchTimer, now, nMutations, pc, formErrors, sortSelect,
                   sheetVars, session, errorToast,
                   setItemThrows,
                   workerVars>>

\* beforeunload saving only when the timeout of debouncedSave is pending
beforeunload_whenPending ==
    /\ pc = "ready"
    /\ storage' = IF saveTimer
                  THEN setItem(saveToLocalStorage(records, totalCost, now))
                  ELSE storage
    /\ pc' = "unloaded"
    /\ records' = <<>>
    /\ filteredRecords' = <<>>
    /\ totalCost' = 0
    /\ currentPage' = 1
    /\ searchInput' = <<>>
    /\ searchTimer' = FALSE
    /\ saveTimer' = FALSE
    /\ formErrors' = {}
    /\ sortSelect' = ""
    /\ exportBtn' = FALSE
    /\ uploadBtn' = FALSE
    /\ exportsInFlight' = 0
    /\ uploadWait' = "idle"
    /\ isSheetJSLoaded' = FALSE
    /\ errorToast' = ""
    /\ UNCHANGED <<now, nMutations, session, setItemThrows,
                   workerVars>>

\* beforeunload: the listener of attachEventListeners and the listener of
\* the window each call saveToLocalStorage, with the same collection and
\* total; then the page and its object are gone
beforeunload ==
    /\ pc = "ready"
    /\ storage' = setItem(saveToLocalStorage(records, totalCost, now))
    /\ pc' = "unloaded"
    /\ records' = <<>>
    /\ filteredRecords' = <<>>
    /\ totalCost' = 0
    /\ currentPage' = 1
    /\ searchInput' = <<>>
    /\ searchTimer' = FALSE
    /\ saveTimer' = FALSE
    /\ formErrors' = {}
    /\ sortSelect' = ""
    /\ exportBtn' = FALSE
    /\ uploadBtn' = FALSE
    /\ exportsInFlight' = 0
    /\ uploadWait' = "idle"
    /\ isSheetJSLoaded' = FALSE
    /\ errorToast' = ""
    /\ UNCHANGED <<now, nMutations, session, setItemThrows,
                   workerVars>>

\* the page is loaded again: DOMContentLoaded makes a new CarExpenseTracker,
\* whose constructor sets the fields and leaves the stored item as it is
reload ==
    /\ pc = "unloaded"
    /\ session < MaxSessions
    /\ session' = session + 1
    /\ pc' = "constructed"
    /\ records' = <<>>
    /\ filteredRecords' = <<>>
    /\ totalCost' = 0
    /\ currentPage' = 1
    /\ isSheetJSLoaded' = FALSE
    /\ UNCHANGED <<searchInput, searchTimer, saveTimer, storage, now, nMutations,
                   formErrors, sortSelect, exportBtn, uploadBtn,
                   exportsInFlight, uploadWait, errorToast, setItemThrows,
                   workerVars>>

\* one step of the application, its inputs taken from the sets of `inputs`
NextWith(inputs) ==
    \/ init
    \/ submit(inputs.forms, inputs.mutations)
    \/ searchInputEvent(inputs.searches)
    \/ handleSearch
    \/ sortChange(inputs.sorts)
    \/ pageClick
    \/ upload(inputs.sheets, inputs.draws, inputs.mutations)
    \/ saveTimerFires
    \/ beforeunload

\* one step of the application, other events arriving while an export or an
\* import waits
NextAsync(inputs) ==
    \/ init
    \/ submit(inputs.forms, inputs.mutations)
    \/ searchInputEvent(inputs.searches)
    \/ handleSearch
    \/ sortChange(inputs.sorts)
    \/ pageClick
    \/ handleExport
    \/ exportScriptLoaded
    \/ exportScriptError
    \/ uploadFileChange
    \/ uploadScriptLoaded
    \/ uploadScriptError
    \/ fileRead(inputs.sheets, inputs.draws, inputs.mutations)
    \/ fileReadError
    \/ saveTimerFires
    \/ beforeunload

\* one step of a run of several page loads
NextSessions(inputs) ==
    \/ NextWith(inputs)
    \/ reload

\* the storage of the browser gets full, or gets room again
quotaChanges ==
    /\ setItemThrows' = ~setItemThrows
    /\ UNCHANGED <<records, filteredRecords, totalCost, currentPage, searchInput,
                   searchTimer, saveTimer, storage, now, nMutations, pc,
                   formErrors, sortSelect, sheetVars, session, errorToast,
                   workerVars>>

\* one step of a run of several page loads whose writes may fail
NextQuota(inputs) ==
    \/ NextSessions(inputs)
    \/ quotaChanges

----------------------------------------------------------------------------
(* Specifications *)

\* a trip from "A" to "b" with no fuel cost entered and the least toll
PlainForm == FormInput(<<"A", " ">>, <<"b">>, <<>>, simulateTollFee(0), 0)

\* The store: every stored item of at most a page; forms with no fuel cost,
\* with a negative one and with a destination of white space; sheets of no
\* row, of one row and of two, with one draw of Math.random(); one value of
\* the search box and one sort directive.
StoreInputs ==
    [forms    |-> {PlainForm,
                   [PlainForm EXCEPT !.fuelCost = <<"-", "7">>,
                                     !.tollFee = simulateTollFee(4999)],
                   [PlainForm EXCEPT !.endPoint = <<" ">>]},
     searches |-> {<<" ", "A">>},
     sorts    |-> {"cost-desc"},
     sheets   |-> {<<>>, <<ExportedRow>>, <<SparseRow, ForeignRow>>},
     draws    |-> {0},
     mutations |-> MaxMutations]

SpecStore ==
    /\ InitWith(InitialStorage \ {SavedBy(LargeStore)})
    /\ [][NextWith(StoreInputs)]_vars

\* The view: a stored collection of one page, every value of the search box
\* and one sort directive; one form input that passes and one that fails,
\* and one sheet.
ViewInputs ==
    [forms    |-> {PlainForm, [PlainForm EXCEPT !.endPoint = <<" ">>]},
     searches |-> SearchInputs,
     sorts    |-> {"date-asc"},
     sheets   |-> {<<ForeignRow>>},
     draws    |-> {0},
     mutations |-> MaxMutations]

SpecView ==
    /\ InitWith({SavedBy(SmallStore)})
    /\ [][NextWith(ViewInputs)]_vars

\* The pages: a stored collection of three pages; every value of the search
\* box, one sort directive, one form input that passes and one that fails,
\* and one sheet.
PagesInputs ==
    [forms    |-> {PlainForm, [PlainForm EXCEPT !.endPoint = <<" ">>]},
     searches |-> {<<>>, <<" ", "A">>, <<"j">>},
     sorts    |-> {"cost-desc"},
     sheets   |-> {<<ForeignRow>>},
     draws    |-> {0},
     mutations |-> MaxMutations]

SpecPages ==
    /\ InitWith({SavedBy(LargeStore)})
    /\ [][NextWith(PagesInputs)]_vars

\* The sort: a stored collection with records of the same timestamp and
\* total, every sort directive, the empty search and one that finds the two
\* tied records, one form input and one sheet.
SortInputs ==
    [forms    |-> {PlainForm},
     searches |-> {<<>>, <<"b", " ">>},
     sorts    |-> SortValues,
     sheets   |-> {<<ForeignRow>>},
     draws    |-> {0},
     mutations |-> MaxMutations]

SpecSort ==
    /\ InitWith({TiedPayload})
    /\ [][NextWith(SortInputs)]_vars

\* The sessions: page loads one after the other, the first with no stored
\* item; bursts of adds and imports; one form input, one sheet, one value of
\* the search box and one sort directive.
SessionInputs ==
    [forms    |-> {PlainForm},
     searches |-> {<<" ", "A">>},
     sorts    |-> {"cost-desc"},
     sheets   |-> {<<ForeignRow>>},
     draws    |-> {0},
     mutations |-> BurstLength]

SpecSessions ==
    /\ InitWith({NoItem})
    /\ [][NextSessions(SessionInputs)]_vars

\* The quota: page loads one after the other, the first with no stored item
\* or with a saved collection, setItem accepting the writes at some times and
\* throwing at others; one form input, one sheet, one value of the search box
\* and one sort directive.
QuotaInputs ==
    [forms    |-> {PlainForm},
     searches |-> {<<" ", "A">>},
     sorts    |-> {"cost-desc"},
     sheets   |-> {<<ForeignRow>>},
     draws    |-> {0},
     mutations |-> MaxMutations]

SpecQuota ==
    /\ InitWith({NoItem, SavedBy(SmallStore)})
    /\ [][NextQuota(QuotaInputs)]_vars

\* the sessions, the timeout of debouncedSave firing when it stays pending
SpecLive ==
    /\ SpecSessions
    /\ WF_vars(saveTimerFires)

\* The spreadsheet operations: exports and an import that wait for the
\* library and the file, with adds, searches, sorts and page changes between.
SheetInputs ==
    [forms    |-> {PlainForm, [PlainForm EXCEPT !.endPoint = <<" ">>]},
     searches |-> {<<" ", "A">>},
     sorts    |-> {"cost-desc"},
     sheets   |-> {<<ForeignRow>>},
     draws    |-> {0},
     mutations |-> MaxMutations]

SpecSheets ==
    /\ InitWith({SavedBy(SmallStore)})
    /\ [][NextAsync(SheetInputs)]_vars

\* The loading states: the spreadsheet operations with one form input, every
\* script load and every file read coming to an end, with onload or with
\* onerror.
LoadingInputs ==
    [forms    |-> {PlainForm},
     searches |-> {<<" ", "A">>},
     sorts    |-> {"cost-desc"},
     sheets   |-> {<<ForeignRow>>},
     draws    |-> {0},
     mutations |-> MaxMutations]

SpecSheetsLive ==
    /\ InitWith({SavedBy(SmallStore)})
    /\ [][NextAsync(LoadingInputs)]_vars
    /\ WF_vars(exportScriptLoaded \/ exportScriptError)
    /\ WF_vars(uploadScriptLoaded \/ uploadScriptError)
    /\ WF_vars(fileRead(LoadingInputs.sheets, LoadingInputs.draws,
                        LoadingInputs.mutations)
                  \/ fileReadError)

\* The service worker: its fetch events for the requests of the model, every
\* outcome of the network, and the background fetches ending at any time.
InitWorker ==
    /\ Loaded({NoItem})
    /\ Installed

SpecWorker ==
    /\ InitWorker
    /\ [][NextWorker]_vars

\* The ids: no stored item; an import of two rows, with every draw of
\* Math.random() and every run of the clock; one form input, one value of
\* the search box and one sort directive.
IdInputs ==
    [forms    |-> {PlainForm},
     searches |-> {<<" ", "A">>},
     sorts    |-> {"cost-desc"},
     sheets   |-> {<<SparseRow, ForeignRow>>},
     draws    |-> RandFracs,
     mutations |-> MaxMutations]

SpecIds ==
    /\ InitWith({NoItem})
    /\ [][NextWith(IdInputs)]_vars

----------------------------------------------------------------------------
(* Properties *)

Range(seq) == {seq[i] : i \in 1..Len(seq)}

\* the search term handleSearch would use now
currentTerm == trim(toLowerCase(searchInput))

\* a step that adds or imports
Mutation == nMutations' = nMutations + 1

\* the records a mutation step put into the collection: the first one of an
\* add, the last ones of an import
NewRecords ==
    IF formErrors' = {} /\ Len(records') = Len(records) + 1
          /\ SubSeq(records', 2, Len(records')) = records
    THEN {records'[1]}
    ELSE {records'[i] : i \in (Len(records) + 1)..Len(records')}

\* C1: in every state after startup the aggregate total is the sum of the
\* total fields of the records of the collection.
C1_TotalCostIsSum == pc = "ready" => totalCost = SumTotals(records)

\* C2: a submit with an origin and a destination that are not blank puts one
\* record in front of the collection, leaves the records that were there as
\* they were, and adds the new record's total to the aggregate total.
C2_AddIncreasesByOne ==
    [][\A in \in StoreInputs.forms, t \in ClockReadings(now) :
          (/\ trim(in.startPoint) # <<>>
           /\ trim(in.endPoint) # <<>>
           /\ handleFormSubmit(in, t))
          => /\ Len(records') = Len(records) + 1
             /\ SubSeq(records', 2, Len(records')) = records
             /\ totalCost' = totalCost + records'[1].total]_vars

\* a record only the form with the negative fuel cost makes is in front
C2_Witness ==
    /\ pc = "ready"
    /\ nMutations = 1
    /\ records # <<>>
    /\ records[1].fuel = 0 - 7
    /\ records[1].toll = 5999
    /\ totalCost > 5000

\* C3: every record of the collection has total = toll + fuel.
C3_TotalIsTollPlusFuel ==
    \A i \in 1..Len(records) :
        records[i].total = records[i].toll + records[i].fuel

\* C4: every record of the collection has toll >= 0 and fuel >= 0.
C4_CostsNotNegative ==
    \A i \in 1..Len(records) : records[i].toll >= 0 /\ records[i].fuel >= 0

\* C5: a submit whose origin or destination is blank changes neither the
\* collection, the aggregate total, the filtered list, the list on display nor
\* the current page, and starts no save timer and writes nothing to storage.
C5_RejectedSubmitChangesNothing ==
    [][\A in \in StoreInputs.forms, t \in ClockReadings(now) :
          (/\ trim(in.startPoint) = <<>> \/ trim(in.endPoint) = <<>>
           /\ handleFormSubmit(in, t))
          => /\ UNCHANGED <<records, totalCost, filteredRecords, currentPage,
                            saveTimer, storage>>
             /\ displayedRecords(filteredRecords', records')
                    = displayedRecords(filteredRecords, records)]_vars

\* a destination of white space was rejected, with records in the collection
C5_Witness ==
    /\ pc = "ready"
    /\ formErrors = {"endPoint"}
    /\ records # <<>>
    /\ totalCost > 0

\* C6: a page change of direction d sets the current page to currentPage + d
\* when that lies in 1..ceil(length of the list on display / 20), and else
\* leaves it; the collection, the aggregate total and the list on display stay.
C6_PageChangeInRange ==
    [][\A d \in {-1, 1} :
          changePage(d)
          => /\ currentPage' =
                    IF /\ currentPage + d >= 1
                       /\ (currentPage + d - 1) * recordsPerPage
                              < Len(displayedRecords(filteredRecords, records))
                    THEN currentPage + d
                    ELSE currentPage
             /\ UNCHANGED <<records, totalCost, filteredRecords>>]_vars

\* the last of three pages is current
C6_Witness ==
    /\ pc = "ready"
    /\ currentPage = 3
    /\ Len(displayedRecords(filteredRecords, records)) > 2 * recordsPerPage

\* C7: an add or an import leaves the current page 1.
C7_MutationResetsPage == [][Mutation => currentPage' = 1]_vars

\* C8: after an add or an import, with no search pending, the list on display
\* holds every new record that matches the search term, and every new record
\* when the term is empty.
C8_NewRecordsDisplayed ==
    [][(Mutation /\ ~searchTimer)
          => \A r \in NewRecords :
                (currentTerm = <<>> \/ matches(r, currentTerm))
                => r \in Range(displayedRecords(filteredRecords', records'))]_vars

\* C9: a search with a term that is not empty leaves as filtered list the
\* records whose route or date holds the term, letter case ignored in both.
C9_SearchMatchesIgnoringCase ==
    [][(handleSearch /\ currentTerm # <<>>)
          => filteredRecords' =
                SelectSeq(records,
                          LAMBDA r :
                              \/ includes(toLowerCase(r.route), currentTerm)
                              \/ includes(toLowerCase(r.date), currentTerm))]_vars

\* C10: a search with a term that is not empty and that no record of the
\* collection matches leaves no record on the visible page and a list on
\* display of no record.
C10_NoMatchShowsNothing ==
    [][(/\ handleSearch
        /\ currentTerm # <<>>
        /\ records # <<>>
        /\ \A i \in 1..Len(records) :
              /\ ~includes(toLowerCase(records[i].route), currentTerm)
              /\ ~includes(toLowerCase(records[i].date), currentTerm))
          => /\ pageRecords(filteredRecords', records', currentPage') = <<>>
             /\ displayedRecords(filteredRecords', records') = <<>>]_vars

\* the list on display
displayed == displayedRecords(filteredRecords, records)

\* the records of s whose sort key under the directive is that of r
sameKey(sortValue, s, r) ==
    SelectSeq(s, LAMBDA x :
        IF sortValue \in {"date-desc", "date-asc"}
        THEN x.timestamp = r.timestamp
        ELSE x.total = r.total)

\* s is in the order of the directive
inOrder(sortValue, s) ==
    \A i, j \in 1..Len(s) :
        i < j =>
            CASE sortValue = "date-desc" -> s[i].timestamp >= s[j].timestamp
              [] sortValue = "date-asc"  -> s[i].timestamp <= s[j].timestamp
              [] sortValue = "cost-desc" -> s[i].total >= s[j].total
              [] sortValue = "cost-asc"  -> s[i].total <= s[j].total
              [] OTHER                   -> TRUE

\* s and t hold the same records, each as many times
sameRecords(s, t) ==
    /\ Len(s) = Len(t)
    /\ \A r \in Range(s) \cup Range(t) :
          Cardinality({i \in 1..Len(s) : s[i] = r})
              = Cardinality({i \in 1..Len(t) : t[i] = r})

\* C11: a sort with one of the four directives leaves on display the records
\* that were on display, in the order of the directive, the records of one
\* sort key in the order they had; with another value of the selector the
\* list on display stays as it was.
C11_SortIsStablePermutation ==
    [][\A v \in SortValues :
          handleSort(v)
          => LET after == displayedRecords(filteredRecords', records')
             IN  IF v = ""
                 THEN after = displayed
                 ELSE /\ Len(after) = Len(displayed)
                      /\ inOrder(v, after)
                      /\ \A r \in Range(displayed) \cup Range(after) :
                            sameKey(v, after, r) = sameKey(v, displayed, r)]_vars

\* a list of three records sorted by date, newest first, the two of the same
\* timestamp behind the other in the order the store had them
C11_Witness ==
    /\ pc = "ready"
    /\ sortSelect = "date-desc"
    /\ nMutations = 0
    /\ displayed = <<TiedRecords[2], TiedRecords[1], TiedRecords[3]>>

\* C12: with no search pending and a directive selected, whenever the list on
\* display holds the records that match the search term, it is in the order of
\* the directive selected (a consequence of the claim: the list is the matching
\* records in the order of the directive).
C12_SelectedSortApplies ==
    (/\ pc = "ready"
     /\ ~searchTimer
     /\ sortSelect # ""
     /\ sameRecords(displayed,
                    IF currentTerm = <<>>
                    THEN records
                    ELSE SelectSeq(records, LAMBDA r : matches(r, currentTerm))))
    => inOrder(sortSelect, displayed)

\* C13: every write of the stored item is a payload of the fields records,
\* totalCost, version "1.0" and lastSaved that holds the collection and the
\* aggregate total of that moment; and a session that starts with a stored
\* payload written by a save has, after init, the collection and the aggregate
\* total of the payload, with no sample record added.
C13_SavedSessionComesBack ==
    [][/\ storage' # storage
          => /\ storage'.kind = "json"
             /\ storage'.hasRecords /\ storage'.records = records
             /\ storage'.hasTotalCost /\ storage'.totalCost = totalCost
             /\ storage'.version = "1.0"
             /\ storage'.lastSaved = now
       /\ (init /\ storage.kind = "json")
          => /\ records' = storage.records
             /\ totalCost' = storage.totalCost]_vars

\* the second session after its init, with the five sample records and the
\* record that the first session added and saved
C13_Witness ==
    /\ session = 2
    /\ pc = "ready"
    /\ Len(records) = 6
    /\ nMutations = 1
    /\ records[1].route = <<"A", " ", ">", " ", "b">>
    /\ storage.kind = "json"
    /\ records = storage.records
    /\ totalCost = storage.totalCost
    /\ totalCost > 0

\* a stored item that is no payload of a save: a text that does not parse, or
\* JSON without the records or without the totalCost field
invalidItem(st) ==
    \/ st.kind = "garbage"
    \/ st.kind = "json" /\ (~st.hasRecords \/ ~st.hasTotalCost)

\* C14: a session that starts with an invalid stored item starts as one with
\* no stored item does: load leaves an empty collection and aggregate total 0,
\* so that init ends with the five sample records and the sum of their totals.
C14_InvalidItemLoadsEmpty ==
    [][(init /\ invalidItem(storage))
          => /\ \E seed \in MockSeeds :
                   records' = generateMockHistory(5, seed, now)
             /\ totalCost' = SumTotals(records')]_vars

\* the records an add or an import of the sessions can make
SessionRecords ==
    UNION {{formRecord(PlainForm, t), importRecord(ForeignRow, 0, 0, t)} :
               t \in StartTime..(StartTime + BurstLength)}

\* C15: a record that an add or an import put into the collection, the save
\* timer pending, is later in the records of the stored item, the timer
\* firing when it stays pending.
C15_MutationIsSaved ==
    \A r \in SessionRecords :
        (pc = "ready" /\ saveTimer /\ r \in Range(records))
            ~> (storage.kind = "json" /\ r \in Range(storage.records))

\* the timer has fired in the first session and the stored item holds the
\* imported record
C15_Witness ==
    /\ session = 1
    /\ pc = "ready"
    /\ ~saveTimer
    /\ nMutations = 1
    /\ storage.kind = "json"
    /\ records[Len(records)].route = <<"z">>
    /\ records[Len(records)] \in Range(storage.records)

\* C16: an add or an import starts the save timer and writes nothing; the
\* timer firing writes the collection and the aggregate total of that moment
\* and leaves no timer; and in a session the stored item is written only with
\* the timer pending, which the write ends: one write for a burst.
C16_OneWritePerBurst ==
    [][/\ Mutation => (saveTimer' /\ storage' = storage)
       /\ saveTimerFires
          => /\ ~saveTimer'
             /\ storage'.records = records
             /\ storage'.totalCost = totalCost
       /\ (storage' # storage /\ pc' = "ready") => (saveTimer /\ ~saveTimer')]_vars

\* two adds within a millisecond, and the stored item holds both
C16_Witness ==
    /\ session = 1
    /\ pc = "ready"
    /\ nMutations = 2
    /\ ~saveTimer
    /\ records[1].timestamp = StartTime
    /\ records[2].timestamp = StartTime
    /\ storage.kind = "json"
    /\ storage.records = records
    /\ storage.totalCost = totalCost

\* C17: the rows of an export of the collection, imported, give as many
\* records, in the same order, each with the date, origin, destination, route,
\* toll, fuel and total of the record it was exported of.
C17_ExportImportRoundTrip ==
    pc = "ready"
    => LET rows == exportData(records)
           back == importRecords(rows, [k \in 1..Len(rows) |-> 0],
                                 [k \in 1..Len(rows) |-> now])
       IN  /\ Len(back) = Len(records)
           /\ \A i \in 1..Len(records) :
                 /\ back[i].date = records[i].date
                 /\ back[i].startPoint = records[i].startPoint
                 /\ back[i].endPoint = records[i].endPoint
                 /\ back[i].route = records[i].route
                 /\ back[i].toll = records[i].toll
                 /\ back[i].fuel = records[i].fuel
                 /\ back[i].total = records[i].total

\* a cell that holds no number: absent, or a text that is not an integer
\* written in digits behind an optional sign
nonNumeric(cell) ==
    \/ cell.kind = "missing"
    \/ /\ cell.kind = "str"
       /\ LET t == trim(cell.s)
              d == IF t # <<>> /\ Head(t) \in {"-", "+"} THEN Tail(t) ELSE t
          IN  d = <<>> \/ \E i \in 1..Len(d) : ~IsDigit(d[i])

\* C18: an import of N rows puts N records into the collection, the k-th of
\* row k: with the unknown label for an origin or a destination that is
\* absent, 0 for a toll or a fuel cost that is absent or no number, and
\* total = toll + fuel; the aggregate total grows by the sum of their totals.
C18_ImportCoercesRows ==
    [][\A jsonData \in StoreInputs.sheets :
         \A fracs \in [1..Len(jsonData) -> StoreInputs.draws],
            t \in ClockRuns(now, Len(jsonData)) :
          handleUpload(jsonData, fracs, t)
          => /\ Len(records') = Len(records) + Len(jsonData)
             /\ totalCost' = totalCost
                    + SumTotals(SubSeq(records', Len(records) + 1, Len(records')))
             /\ \A k \in 1..Len(jsonData) :
                   LET r == records'[Len(records) + k]
                       row == jsonData[k]
                   IN  /\ row.startPoint.kind = "missing"
                          => r.startPoint = Unknown
                       /\ row.endPoint.kind = "missing" => r.endPoint = Unknown
                       /\ nonNumeric(row.toll) => r.toll = 0
                       /\ nonNumeric(row.fuel) => r.fuel = 0
                       /\ r.total = r.toll + r.fuel]_vars

\* C19: while a handleExport waits the export button is disabled and no
\* second handleExport waits; while handleUpload waits the upload button is
\* disabled.
C19_ControlDisabledInFlight ==
    /\ exportsInFlight > 0 => exportBtn
    /\ exportsInFlight <= 1
    /\ uploadWait # "idle" => uploadBtn

\* C20: an add puts its record in front of the records that were there, an
\* import puts its records behind them, the record of row k at place k of the
\* new ones; the records that were there keep their order.
C20_AddInFrontImportBehind ==
    [][Mutation =>
       /\ \A in \in StoreInputs.forms, t \in ClockReadings(now) :
            (validateForm(in.startPoint, in.endPoint) = {}
                /\ handleFormSubmit(in, t))
            => /\ records' # <<>>
               /\ Tail(records') = records
               /\ records'[1].timestamp = t
               /\ records'[1].startPoint = trim(in.startPoint)
       /\ \A jsonData \in StoreInputs.sheets :
            \A fracs \in [1..Len(jsonData) -> StoreInputs.draws],
               t \in ClockRuns(now, Len(jsonData)) :
             handleUpload(jsonData, fracs, t)
             => /\ Len(records') = Len(records) + Len(jsonData)
                /\ SubSeq(records', 1, Len(records)) = records
                /\ \A k \in 1..Len(jsonData) :
                      LET r == records'[Len(records) + k]
                      IN  /\ r.timestamp = t[k] + k - 1
                          /\ r.endPoint = OrText(jsonData[k].endPoint, Unknown)
                          /\ r.date = OrText(jsonData[k].date,
                                             toLocaleDateString(t[k]))]_vars

\* the two rows of a sheet are the last two records, in the order of the
\* sheet, behind the records of the store
C20_Witness ==
    /\ pc = "ready"
    /\ nMutations = 1
    /\ Len(records) = SmallStore + 2
    /\ SubSeq(records, 1, SmallStore) = StoredRecords(SmallStore)
    /\ records[SmallStore + 1].endPoint = Unknown
    /\ records[SmallStore + 2].route = <<"z">>

\* C21: init leaves the records and the totalCost of a stored payload that
\* holds a record; it leaves the sample records only when the stored item
\* holds no record, and then the aggregate total is the sum of their totals.
C21_SeededOnlyWhenEmpty ==
    [][init
          => LET holdsRecord == /\ storage.kind = "json"
                                /\ storage.hasRecords
                                /\ Len(storage.records) >= 1
                 seeded == \E seed \in MockSeeds :
                               records' = generateMockHistory(5, seed, now)
             IN  /\ holdsRecord
                    => /\ records' = storage.records
                       /\ storage.hasTotalCost => totalCost' = storage.totalCost
                 /\ seeded
                    => /\ ~holdsRecord
                       /\ totalCost' = SumTotals(records')]_vars

\* C22: the records of one import have ids that differ from one another,
\* also when their rows are processed within one reading of the clock.
C22_IdsDistinct ==
    [][\A jsonData \in IdInputs.sheets :
         \A fracs \in [1..Len(jsonData) -> IdInputs.draws],
            t \in ClockRuns(now, Len(jsonData)) :
          handleUpload(jsonData, fracs, t)
          => \A i, j \in 1..Len(jsonData) :
                i < j => records'[Len(records) + i].id
                            # records'[Len(records) + j].id]_vars

\* C23: the records of one import have timestamps that differ from one
\* another, whether the clock stays or advances from row to row.
C23_BatchTimestampsDistinct ==
    [][Len(records') > Len(records)
          => \A jsonData \in IdInputs.sheets :
               \A fracs \in [1..Len(jsonData) -> IdInputs.draws],
                  t \in ClockRuns(now, Len(jsonData)) :
                handleUpload(jsonData, fracs, t)
                => \A i, j \in 1..Len(jsonData) :
                      i < j => records'[Len(records) + i].timestamp
                                  # records'[Len(records) + j].timestamp]_vars

\* two rows imported within a millisecond: the ids are of the same reading of
\* the clock, the timestamps are that reading and the next number
C23_Witness ==
    /\ pc = "ready"
    /\ nMutations = 1
    /\ Len(records) = 7
    /\ records[6].id[1] = records[7].id[1]
    /\ records[6].timestamp = records[6].id[1]
    /\ records[7].timestamp = records[6].timestamp + 1

\* the records that match the search term, in the order of the collection
matching ==
    IF currentTerm = <<>>
    THEN records
    ELSE SelectSeq(records, LAMBDA r : matches(r, currentTerm))

\* C28: after a search the page count is the number of matching records
\* divided by the page size, rounded up, and 1 when no record matches.
C28_PageCountAtLeastOne ==
    [][handleSearch
          => getTotalPages(filteredRecords', records')
                = IF Len(matching) = 0
                  THEN 1
                  ELSE (Len(matching) + recordsPerPage - 1)
                           \div recordsPerPage]_vars

\* C29: page p of the list on display holds its records at the places
\* (p - 1) * 20 + 1 to p * 20, in order: twenty on every page but the last,
\* the rest on the last, and every record of the list is on one page.
C29_PagesPartitionList ==
    pc = "ready"
    => LET n == Len(displayed)
           totalPages == getTotalPages(filteredRecords, records)
       IN  /\ (totalPages - 1) * recordsPerPage < n
           /\ n <= totalPages * recordsPerPage
           /\ \A p \in 1..totalPages :
                 LET page == pageRecords(filteredRecords, records, p)
                 IN  /\ Len(page) = IF p < totalPages
                                    THEN recordsPerPage
                                    ELSE n - (totalPages - 1) * recordsPerPage
                     /\ \A i \in 1..Len(page) :
                           page[i] = displayed[(p - 1) * recordsPerPage + i]

\* 45 records on display, the third page current: it shows five records
C29_Witness ==
    /\ pc = "ready"
    /\ Len(displayed) = 45
    /\ getTotalPages(filteredRecords, records) = 3
    /\ currentPage = 3
    /\ Len(pageRecords(filteredRecords, records, currentPage)) = 5

\* C30: the route of every record of the collection is its origin, the
\* arrow and its destination.
C30_RouteIsDerived ==
    \A i \in 1..Len(records) :
        records[i].route
            = records[i].startPoint \o <<" ", ">", " ">> \o records[i].endPoint

\* C24: a page unload saves, whether the timeout of debouncedSave is pending
\* or not: unless setItem throws, the stored records and totalCost are then
\* the collection and the aggregate total the page had when it was unloaded.
C24_UnloadSaves ==
    [][(pc = "ready" /\ pc' = "unloaded" /\ ~setItemThrows)
          => /\ storage'.kind = "json"
             /\ storage'.hasRecords /\ storage'.records = records
             /\ storage'.hasTotalCost /\ storage'.totalCost = totalCost]_vars

\* a first page with no stored item, unloaded with no add and no import, so
\* with no write pending at any time: the sample records are stored
C24_Witness ==
    /\ pc = "unloaded"
    /\ session = 1
    /\ nMutations = 0
    /\ storage.kind = "json"
    /\ Len(storage.records) = 5

\* C25: a save in which setItem throws ends as a save does, with the
\* collection, the aggregate total and the stored item as they were; and
\* every write to the stored item writes the whole collection and the
\* aggregate total of that time.
C25_FailedSaveLosesNothing ==
    [][/\ (saveTimerFires /\ setItemThrows)
          => /\ ~saveTimer' /\ pc' = "ready"
             /\ records' = records /\ totalCost' = totalCost
             /\ storage' = storage
       /\ storage' # storage
          => /\ storage'.records = records
             /\ storage'.totalCost = totalCost]_vars

\* an add or an import was made, its save failed and none is pending: the
\* stored item is behind the collection
C25_Witness ==
    /\ pc = "ready"
    /\ nMutations = 1
    /\ ~saveTimer
    /\ setItemThrows
    /\ storage.kind = "json"
    /\ Len(storage.records) = SmallStore
    /\ Len(records) = SmallStore + 1

\* C26: when the script of the library fails to load, or the file fails to
\* be read or parsed, the collection, the aggregate total, the filtered list,
\* the current page, the stored item and the pending timeout of debouncedSave
\* are as they were before.
C26_AbortLeavesState ==
    [][(exportScriptError \/ uploadScriptError \/ fileReadError)
          => UNCHANGED <<records, totalCost, filteredRecords, currentPage,
                         saveTimer, storage, nMutations>>]_vars

\* a file that could not be read, after an add whose save is done
C26_Witness ==
    /\ pc = "ready"
    /\ errorToast = "uploadFailed"
    /\ uploadWait = "idle"
    /\ ~uploadBtn
    /\ nMutations = 1
    /\ ~saveTimer

\* C31: a search and a sort leave the collection, its records and their
\* order, and the aggregate total as they were.
C31_SearchSortKeepCollection ==
    [][(handleSearch \/ \E v \in SortValues : handleSort(v))
          => records' = records /\ totalCost' = totalCost]_vars

\* C32: after a sort with a directive, the same sort once more would leave
\* the list on display and the current page as they are; after a search, the
\* same search once more would leave the filtered list and the current page
\* as they are.
C32_SecondRunChangesNothing ==
    [][/\ \A v \in SortValues :
            handleSort(v)
            => /\ sort(v, displayed') = displayed'
               /\ currentPage' = 1
       /\ handleSearch
          => /\ searchResult(records', searchInput') = filteredRecords'
             /\ currentPage' = 1]_vars

\* the list on display was sorted by cost, the dearest first, and holds two
\* records of the same total, in the order the collection has them in
C32_Witness ==
    /\ pc = "ready"
    /\ sortSelect = "cost-desc"
    /\ nMutations = 0
    /\ displayed = <<TiedRecords[2], TiedRecords[1], TiedRecords[3]>>
    /\ displayed[2].total = displayed[3].total

\* C33: an input event of the search box leaves the filtered list and the
\* current page and starts the timeout; when the timeout fires the search
\* runs with the value the box has then, and no timeout is pending after it.
C33_SearchIsDebounced ==
    [][/\ (pc' = "ready" /\ searchInput' # searchInput)
          => /\ UNCHANGED <<filteredRecords, currentPage>>
             /\ searchTimer'
       /\ (pc' = "ready" /\ searchTimer /\ ~searchTimer')
          => /\ filteredRecords' = searchResult(records, searchInput)
             /\ currentPage' = 1
             /\ searchInput' = searchInput]_vars

\* the box holds a term that no record matches and the timeout is pending:
\* the filtered list is still that of the empty term, the whole collection
C33_Witness ==
    /\ pc = "ready"
    /\ searchTimer
    /\ searchInput = <<"j">>
    /\ nMutations = 0
    /\ filteredRecords = records
    /\ records # <<>>

\* C34: after startup the current page is at least 1 and at most the page
\* count of the list on display, or 1 when that is less.
C34_PageInRange ==
    pc = "ready"
    => LET totalPages == getTotalPages(filteredRecords, records)
       IN  /\ 1 <= currentPage
           /\ currentPage <= IF totalPages > 1 THEN totalPages ELSE 1
           /\ displayed # <<>>
              => pageRecords(filteredRecords, records, currentPage) # <<>>

\* a search has found one record of a collection of three pages, and the
\* first page is current
C34_Witness ==
    /\ pc = "ready"
    /\ ~searchTimer
    /\ Len(records) > 2 * recordsPerPage
    /\ Len(filteredRecords) = 1
    /\ currentPage = 1

\* C35: the filtered list holds no record more often than the collection
\* holds it, so none that the collection does not hold.
C35_FilteredWithinCollection ==
    \A r \in Range(filteredRecords) :
        Cardinality({i \in 1..Len(filteredRecords) : filteredRecords[i] = r})
            <= Cardinality({i \in 1..Len(records) : records[i] = r})

\* an add after a search: the filtered list is the collection of before
C35_Witness ==
    /\ pc = "ready"
    /\ nMutations = 1
    /\ filteredRecords # <<>>
    /\ Len(records) = Len(filteredRecords) + 1
    /\ filteredRecords = Tail(records)

\* C36: an export button or an upload button that is disabled is enabled
\* later, and an import that waits comes to an end, every script load and
\* every file read ending with onload or onerror.
C36_LoadingStateClears ==
    /\ exportBtn ~> ~exportBtn
    /\ uploadBtn ~> (~uploadBtn /\ uploadWait = "idle")

\* the script of an import failed to load, and both buttons are enabled
C36_Witness ==
    /\ pc = "ready"
    /\ errorToast = "loadFailed"
    /\ ~isSheetJSLoaded
    /\ uploadWait = "idle"
    /\ exportsInFlight = 0
    /\ ~uploadBtn
    /\ ~exportBtn

\* the script loads of loadSheetJS that have started and not ended
loadsInProgress == exportsInFlight + (IF uploadWait = "load" THEN 1 ELSE 0)

\* C37: no script load is in progress before the first export or import,
\* at most one is in progress at a time, and none while the library is
\* loaded.
C37_AtMostOneLoad ==
    /\ pc = "constructed" => loadsInProgress = 0 /\ ~isSheetJSLoaded
    /\ loadsInProgress <= 1
    /\ isSheetJSLoaded => loadsInProgress = 0

\* the request of the fetch event of the step
answered == responded'.request

\* the cache of the cache-first strategy for the request
cacheFirstName(request) ==
    IF isCriticalResource(request) THEN STATIC_CACHE_NAME ELSE FontsCacheName

\* handleRequest answers the request with the cache-first strategy
isCacheFirst(request) ==
    \/ isCriticalResource(request)
    \/ ~isApiRequest(request) /\ ~isExternalLibrary(request)
          /\ isFontRequest(request)

\* handleRequest answers the request with stale-while-revalidate
isStaleWhileRevalidate(request) ==
    /\ ~isCriticalResource(request)
    /\ ~isApiRequest(request)
    /\ isExternalLibrary(request)

\* C38: a cache-first request whose response is in its cache is answered
\* with that response and no fetch; on a miss the response of the network is
\* the answer and is stored when it is OK and not stored otherwise, so that
\* no cache ever holds a response that is not OK. A stale-while-revalidate
\* request starts a background fetch every time, and is answered with the
\* cached response when there is one, that fetch still under way.
C38_CacheStrategies ==
    [][(nRequests' = nRequests + 1 /\ responded'.source # "skipped")
          => /\ LET name == cacheFirstName(answered)
                    cachedResponse == cacheStorage[name][answered]
                IN  isCacheFirst(answered)
                    => /\ cachedResponse # NoResponse
                          => /\ responded'.response = cachedResponse
                             /\ fetched' = fetched
                             /\ cacheStorage' = cacheStorage
                       /\ (cachedResponse = NoResponse
                             /\ responded'.source = "network")
                          => /\ fetched' = Append(fetched, answered)
                             /\ cacheStorage'[name][answered]
                                   = IF ok(responded'.response)
                                     THEN responded'.response
                                     ELSE NoResponse
             /\ \A i \in 1..Len(CacheNames), request \in Requests :
                   LET stored == cacheStorage'[CacheNames[i]][request]
                   IN  stored # NoResponse => ok(stored)
             /\ LET cachedResponse ==
                        cacheStorage[LibrariesCacheName][answered]
                IN  isStaleWhileRevalidate(answered)
                    => /\ revalidating' = Append(revalidating, answered)
                       /\ SubSeq(fetched', 1, Len(fetched) + 1)
                             = Append(fetched, answered)
                       /\ cachedResponse # NoResponse
                          => /\ responded'.response = cachedResponse
                             /\ fetched' = Append(fetched, answered)]_vars

\* the library script answered from the cache, with the first version, while
\* the fetch of the background refresh is under way
C38_Witness ==
    /\ responded.request = XlsxScript
    /\ responded.source = "cache"
    /\ responded.response = Response(200, 1)
    /\ revalidating # <<>>
    /\ cacheStorage[LibrariesCacheName][XlsxScript] = Response(200, 1)

====
